---- MODULE Spec2Model ----
(***************************************************************************)
(* Page-replacement trace generators of algorithms.js (FIFO, LRU, Optimal, *)
(* Clock) driven by a caller that invokes them repeatedly on one fixed     *)
(* (references, frames) input.  Arrays are functions over 0..n-1 as in the *)
(* source; the reference string is a sequence, so references[i] of the     *)
(* source is references[i + 1] here.  null, NaN, undefined and -Infinity    *)
(* are negative integers that are no page identifier, index or age.  An    *)
(* array is a function whose domain is 0..length-1 plus the keys of any    *)
(* non-index property written to it (-1 and NaN, possible with 0 frames).  *)
(***************************************************************************)
EXTENDS Integers, Sequences, FiniteSets, TLC

\* ---- bounds of the checked inputs ----
MaxLen == 6
MaxPage == 3
MaxFrames == 3
MaxTokens == 2
MaxTimers == 2

Null == -2

\* (nextVictimIndex + 1) % 0 and its successors
NaN == -3

\* a read of an array element or property that was never written
Undefined == -4

\* Math.max() of no arguments
NegInfinity == -5

Algorithms == {"FIFO", "LRU", "Optimal", "Clock"}

Pages == 0..MaxPage

\* the two literal fixtures of the testable properties
FIFOScenario == <<1, 2, 3, 4, 1, 2, 5>>
DivergenceScenario == <<7, 0, 1, 2, 0, 3, 0, 4, 2, 3, 0, 3, 2>>

\* The generators only compare page identifiers with === (indexOf and the
\* lookahead test), so a reference string behaves exactly as its renaming in
\* which the pages are numbered 0, 1, 2, ... in order of first occurrence;
\* one string of each such class is enumerated.
FirstOccurrenceOrder(s) ==
    \A k \in 1..Len(s) : s[k] <= Cardinality({s[m] : m \in 1..(k - 1)})

BoundedInputs ==
    {s \in UNION {[1..n -> Pages] : n \in 0..MaxLen} : FirstOccurrenceOrder(s)}
        \X (1..MaxFrames)
Inputs == BoundedInputs \cup {<<FIFOScenario, 3>>, <<DivergenceScenario, 4>>}

VARIABLES
    references,       \* the page reference string of the run
    frames,           \* the frame count of the run
    pc,               \* "idle": no generator running; "loop": at the head of
                      \* the for loop; "scan": inside Clock's while loop;
                      \* "thrown": the generator threw, the caller's catch
                      \* has not run yet
    alg,              \* the generator being executed
    i,                \* the for-loop index
    memory,           \* let memory
    nextVictimIndex,  \* FIFO pointer
    ageCounter,       \* LRU ages
    refBits,          \* Clock reference bits
    pointer,          \* Clock hand
    probes,           \* slots tested by the current / last hand scan
    trace,            \* let trace
    returned,         \* per generator: << >> or <<the trace last returned>>
    \* ---- app.js: global state ----
    simulationTrace,
    currentStep,
    isPlaying,
    animationInterval,  \* the handle last returned by setInterval, or null
    timers,             \* the handles of the intervals that are running
    animationSpeed,
    \* ---- app.js: what the page shows ----
    currentAction,      \* kind of the message in #currentAction
    stepBackDisabled,   \* stepBackBtn.disabled
    stepFwdDisabled,    \* stepFwdBtn.disabled
    playPauseDisabled,  \* playPauseBtn.disabled
    statHits,           \* #statHits
    statFaults,         \* #statFaults
    statCurrentStep,    \* #statCurrentStep
    statTotalRefs,      \* #statTotalRefs and #statTotalSteps
    statHitRatio        \* #statHitRatio, in hundredths of a percent

uiVars == <<simulationTrace, currentStep, isPlaying, animationInterval, timers,
            animationSpeed, currentAction, stepBackDisabled, stepFwdDisabled,
            playPauseDisabled, statHits, statFaults, statCurrentStep,
            statTotalRefs, statHitRatio>>

vars == <<references, frames, pc, alg, i, memory, nextVictimIndex, ageCounter,
          refBits, pointer, probes, trace, returned, uiVars>>

\* ---- array helpers ----

\* new Array(n).fill(v)
NewArray(n, v) == [j \in 0..(n - 1) |-> v]

\* the array indices 0..length-1 of an array
Indices(arr) == {j \in DOMAIN arr : j >= 0}

\* [...arr]: the elements, without the non-index properties
Spread(arr) == [j \in Indices(arr) |-> arr[j]]

\* arr[k] as a value
Get(arr, k) == IF k \in DOMAIN arr THEN arr[k] ELSE Undefined

\* arr[k] = v
Put(arr, k, v) == [j \in DOMAIN arr \cup {k} |-> IF j = k THEN v ELSE arr[j]]

\* Array.prototype.indexOf: the lowest index holding v, or -1
indexOf(arr, v) ==
    IF \E j \in Indices(arr) : arr[j] = v
    THEN CHOOSE j \in Indices(arr) :
            /\ arr[j] = v
            /\ \A k \in Indices(arr) : arr[k] = v => j <= k
    ELSE -1

hitIndexOfFromOne(mem, ref) ==
    IF \E j \in DOMAIN mem : j >= 1 /\ mem[j] = ref
    THEN CHOOSE j \in DOMAIN mem :
            /\ j >= 1 /\ mem[j] = ref
            /\ \A k \in DOMAIN mem : (k >= 1 /\ mem[k] = ref) => j <= k
    ELSE -1

\* const hitIndex = memory.indexOf(currentRef)
hitIndexOf(mem, ref) == indexOf(mem, ref)

nullIndexOfUndefined(mem) == -1

nullIndexOfLast(mem) ==
    IF \E j \in Indices(mem) : mem[j] = Null
    THEN CHOOSE j \in Indices(mem) :
            /\ mem[j] = Null
            /\ \A k \in Indices(mem) : mem[k] = Null => k <= j
    ELSE -1

\* const nullIndex = memory.indexOf(null)
nullIndexOf(mem) == indexOf(mem, Null)

FoundPositive(idx) == idx > 0

\* the tests `hitIndex !== -1` and `nullIndex !== -1`
Found(idx) == idx /= -1

\* Math.max(...arr)
MathMax(arr) ==
    IF Indices(arr) = {} THEN NegInfinity
    ELSE CHOOSE m \in {arr[j] : j \in Indices(arr)} :
            \A k \in Indices(arr) : arr[k] <= m

LoopCondShort == i < Len(references) - 1

\* the for-loop condition `i < references.length`
LoopCond == i < Len(references)

\* ---- per-call initial values of the generators' locals ----

nextVictimIndexStale == nextVictimIndex

\* let nextVictimIndex = 0
nextVictimIndexInit == 0

\* let pointer = 0
pointerInit == 0

\* ---- FIFO ----

AdvanceStuck(p) == p

\* (p + 1) % frames
Advance(p) == IF p = NaN \/ frames = 0 THEN NaN ELSE (p + 1) % frames

FIFORecordEager(ref, act, mem, rp, rfi, ptr) ==
    [reference |-> ref, refIndex |-> i, action |-> act, frameState |-> Spread(mem),
     replacedPage |-> rp,
     replacedFrameIndex |-> IF rfi = Null THEN ptr ELSE rfi, pointer |-> ptr]

FIFORecordBefore(ref, act, mem, rp, rfi, ptr) ==
    [reference |-> ref, refIndex |-> i, action |-> act, frameState |-> Spread(mem),
     replacedPage |-> rp, replacedFrameIndex |-> rfi, pointer |-> nextVictimIndex]

\* const newState = { ... } with the fields as assigned by the end of the step
FIFORecord(ref, act, mem, rp, rfi, ptr) ==
    [reference |-> ref, refIndex |-> i, action |-> act, frameState |-> Spread(mem),
     replacedPage |-> rp, replacedFrameIndex |-> rfi, pointer |-> ptr]

FIFOStep ==
    /\ pc = "loop" /\ alg = "FIFO" /\ LoopCond
    /\ LET currentRef == references[i + 1]
           hitIndex == hitIndexOf(memory, currentRef)
           nullIndex == nullIndexOf(memory)
       IN  IF Found(hitIndex)
           THEN /\ memory' = memory
                /\ nextVictimIndex' = nextVictimIndex
                /\ trace' = Append(trace, FIFORecord(currentRef, "HIT", memory,
                                                     Null, Null, nextVictimIndex))
           ELSE IF Found(nullIndex)
           THEN /\ memory' = [memory EXCEPT ![nullIndex] = currentRef]
                /\ nextVictimIndex' = nextVictimIndex
                /\ trace' = Append(trace, FIFORecord(currentRef, "FAULT", memory',
                                                     Null, nullIndex, nextVictimIndex))
           ELSE /\ memory' = Put(memory, nextVictimIndex, currentRef)
                /\ nextVictimIndex' = Advance(nextVictimIndex)
                /\ trace' = Append(trace, FIFORecord(currentRef, "REPLACEMENT", memory',
                                                     Get(memory, nextVictimIndex),
                                                     nextVictimIndex, nextVictimIndex'))
    /\ i' = i + 1
    /\ UNCHANGED <<references, frames, pc, alg, ageCounter, refBits, pointer,
                   probes, returned,
                   uiVars>>

\* ---- LRU ----

LRURecord(ref, act, mem, rp, rfi, ages) ==
    [reference |-> ref, refIndex |-> i, action |-> act, frameState |-> Spread(mem),
     replacedPage |-> rp, replacedFrameIndex |-> rfi, lruAges |-> Spread(ages)]

IncrementAllAges(ages, mem, hitIndex) ==
    [j \in DOMAIN ages |->
        IF j \in 0..(frames - 1) /\ j /= hitIndex THEN ages[j] + 1 ELSE ages[j]]

IncrementNoAges(ages, mem, hitIndex) == ages

\* "1. Increment all ages": every occupied slot except the hit one
IncrementAges(ages, mem, hitIndex) ==
    [j \in DOMAIN ages |->
        IF j \in 0..(frames - 1) /\ mem[j] /= Null /\ j /= hitIndex
        THEN ages[j] + 1 ELSE ages[j]]

LRUVictimMin(ages) ==
    indexOf(ages, CHOOSE m \in {ages[j] : j \in Indices(ages)} :
                      \A k \in Indices(ages) : m <= ages[k])

\* const maxAge = Math.max(...ageCounter); ageCounter.indexOf(maxAge)
LRUVictim(ages) == indexOf(ages, MathMax(ages))

LRUStep ==
    /\ pc = "loop" /\ alg = "LRU" /\ LoopCond
    /\ LET currentRef == references[i + 1]
           hitIndex == hitIndexOf(memory, currentRef)
           aged == IncrementAges(ageCounter, memory, hitIndex)
           nullIndex == nullIndexOf(memory)
           victimIndex == LRUVictim(aged)
       IN  IF Found(hitIndex)
           THEN /\ memory' = memory
                /\ ageCounter' = [aged EXCEPT ![hitIndex] = 0]
                /\ trace' = Append(trace, LRURecord(currentRef, "HIT", memory,
                                                    Null, Null, ageCounter'))
           ELSE IF Found(nullIndex)
           THEN /\ memory' = [memory EXCEPT ![nullIndex] = currentRef]
                /\ ageCounter' = [aged EXCEPT ![nullIndex] = 0]
                /\ trace' = Append(trace, LRURecord(currentRef, "FAULT", memory',
                                                    Null, nullIndex, ageCounter'))
           ELSE /\ memory' = Put(memory, victimIndex, currentRef)
                /\ ageCounter' = Put(aged, victimIndex, 0)
                /\ trace' = Append(trace, LRURecord(currentRef, "REPLACEMENT", memory',
                                                    Get(memory, victimIndex), victimIndex,
                                                    ageCounter'))
    /\ i' = i + 1
    /\ UNCHANGED <<references, frames, pc, alg, nextVictimIndex, refBits, pointer,
                   probes, returned,
                   uiVars>>

\* ---- Optimal ----

OptimalRecord(ref, act, mem, rp, rfi) ==
    [reference |-> ref, refIndex |-> i, action |-> act, frameState |-> Spread(mem),
     replacedPage |-> rp, replacedFrameIndex |-> rfi]

nextUseIndexFromStart(page, from) ==
    LET uses == {k \in 0..(Len(references) - 1) : references[k + 1] = page}
    IN  IF uses = {} THEN -1
        ELSE CHOOSE k \in uses : \A u \in uses : k <= u

\* the inner k loop: the first k in i+1 .. references.length-1 with
\* references[k] === page, or -1
nextUseIndex(page, from) ==
    LET uses == {k \in (from + 1)..(Len(references) - 1) : references[k + 1] = page}
    IN  IF uses = {} THEN -1
        ELSE CHOOSE k \in uses : \A u \in uses : k <= u

NearerInFuture(nextUse, longestFutureIndex) ==
    longestFutureIndex = -1 \/ nextUse < longestFutureIndex

\* else if (nextUseIndex > longestFutureIndex)
FurtherInFuture(nextUse, longestFutureIndex) == nextUse > longestFutureIndex

\* the j loop from slot j on, with the loop's two locals
RECURSIVE OptimalScan(_, _, _, _)
OptimalScan(j, longestFutureIndex, victimIndex, mem) ==
    IF j >= frames THEN victimIndex
    ELSE LET nextUse == nextUseIndex(mem[j], i)
         IN  IF nextUse = -1 THEN j
             ELSE IF FurtherInFuture(nextUse, longestFutureIndex)
             THEN OptimalScan(j + 1, nextUse, j, mem)
             ELSE OptimalScan(j + 1, longestFutureIndex, victimIndex, mem)

\* let longestFutureIndex = -1; let victimIndex = -1; for (let j = 0; ...)
OptimalVictim(mem) == OptimalScan(0, -1, -1, mem)

OptimalStep ==
    /\ pc = "loop" /\ alg = "Optimal" /\ LoopCond
    /\ LET currentRef == references[i + 1]
           hitIndex == hitIndexOf(memory, currentRef)
           nullIndex == nullIndexOf(memory)
           victimIndex == OptimalVictim(memory)
       IN  IF Found(hitIndex)
           THEN /\ memory' = memory
                /\ trace' = Append(trace, OptimalRecord(currentRef, "HIT", memory,
                                                        Null, Null))
           ELSE IF Found(nullIndex)
           THEN /\ memory' = [memory EXCEPT ![nullIndex] = currentRef]
                /\ trace' = Append(trace, OptimalRecord(currentRef, "FAULT", memory',
                                                        Null, nullIndex))
           ELSE /\ memory' = Put(memory, victimIndex, currentRef)
                /\ trace' = Append(trace, OptimalRecord(currentRef, "REPLACEMENT",
                                                        memory', Get(memory, victimIndex),
                                                        victimIndex))
    /\ i' = i + 1
    /\ UNCHANGED <<references, frames, pc, alg, nextVictimIndex, ageCounter,
                   refBits, pointer, probes, returned,
                   uiVars>>

\* ---- Clock ----

ClockRecord(ref, act, mem, rp, rfi, bits, ptr) ==
    [reference |-> ref, refIndex |-> i, action |-> act, frameState |-> Spread(mem),
     replacedPage |-> rp, replacedFrameIndex |-> rfi, refBits |-> Spread(bits),
     pointer |-> ptr]

MarkReferencedNot(bits, idx) == bits

\* refBits[hitIndex] = 1, refBits[nullIndex] = 1
MarkReferenced(bits, idx) == [bits EXCEPT ![idx] = 1]

\* a loop iteration that hits or loads into a free slot
ClockStep ==
    /\ pc = "loop" /\ alg = "Clock" /\ LoopCond
    /\ LET currentRef == references[i + 1]
           hitIndex == hitIndexOf(memory, currentRef)
           nullIndex == nullIndexOf(memory)
       IN  /\ Found(hitIndex) \/ Found(nullIndex)
           /\ IF Found(hitIndex)
              THEN /\ memory' = memory
                   /\ refBits' = MarkReferenced(refBits, hitIndex)
                   /\ trace' = Append(trace, ClockRecord(currentRef, "HIT", memory,
                                                         Null, Null, refBits', pointer))
              ELSE /\ memory' = [memory EXCEPT ![nullIndex] = currentRef]
                   /\ refBits' = MarkReferenced(refBits, nullIndex)
                   /\ trace' = Append(trace, ClockRecord(currentRef, "FAULT", memory',
                                                         Null, nullIndex, refBits',
                                                         pointer))
    /\ i' = i + 1
    /\ UNCHANGED <<references, frames, pc, alg, nextVictimIndex, ageCounter,
                   pointer, probes, returned,
                   uiVars>>

\* a loop iteration that misses with no free slot: action = 'REPLACEMENT',
\* control enters while (true)
ClockReplace ==
    /\ pc = "loop" /\ alg = "Clock" /\ LoopCond
    /\ LET currentRef == references[i + 1]
       IN  /\ ~Found(hitIndexOf(memory, currentRef))
           /\ ~Found(nullIndexOf(memory))
    /\ pc' = "scan"
    /\ probes' = 0
    /\ UNCHANGED <<references, frames, alg, i, memory, nextVictimIndex, ageCounter,
                   refBits, pointer, trace, returned,
                   uiVars>>

SetRefBitZero(bits, p) == Put(bits, p, 0)

\* refBits[pointer] = 1 for the page just placed by a replacement
SetRefBit(bits, p) == Put(bits, p, 1)

SecondChanceKeep(bits, p) == bits

\* refBits[pointer] = 0
SecondChance(bits, p) == Put(bits, p, 0)

\* one pass of while (true) on a slot whose bit is set
ClockSecondChance ==
    /\ pc = "scan"
    /\ Get(refBits, pointer) /= 0
    /\ refBits' = SecondChance(refBits, pointer)
    /\ pointer' = Advance(pointer)
    /\ probes' = probes + 1
    /\ UNCHANGED <<references, frames, pc, alg, i, memory, nextVictimIndex,
                   ageCounter, trace, returned,
                   uiVars>>

\* the pass of while (true) that finds the victim, and the rest of the
\* loop iteration
ClockEvict ==
    /\ pc = "scan"
    /\ Get(refBits, pointer) = 0
    /\ LET currentRef == references[i + 1]
       IN  /\ memory' = Put(memory, pointer, currentRef)
           /\ refBits' = SetRefBit(refBits, pointer)
           /\ pointer' = Advance(pointer)
           /\ trace' = Append(trace, ClockRecord(currentRef, "REPLACEMENT", memory',
                                                 Get(memory, pointer), pointer, refBits',
                                                 pointer'))
    /\ probes' = probes + 1
    /\ pc' = "loop"
    /\ i' = i + 1
    /\ UNCHANGED <<references, frames, alg, nextVictimIndex, ageCounter, returned,
                   uiVars>>

\* ---- app.js: the page after the load handler ----

\* the globals as declared, the three buttons disabled by updateControls(false),
\* the statistics panel not yet written by updateStats
InitUI ==
    /\ simulationTrace = << >>
    /\ currentStep = -1
    /\ isPlaying = FALSE
    /\ animationInterval = Null
    /\ timers = {}
    /\ animationSpeed = 1000
    /\ currentAction = "NONE"
    /\ stepBackDisabled = TRUE
    /\ stepFwdDisabled = TRUE
    /\ playPauseDisabled = TRUE
    /\ statHits = Undefined
    /\ statFaults = Undefined
    /\ statCurrentStep = Undefined
    /\ statTotalRefs = Undefined
    /\ statHitRatio = Undefined

\* ---- the caller ----

Call(a) ==
    /\ pc = "idle"
    /\ alg' = a
    /\ pc' = "loop"
    /\ i' = 0
    /\ trace' = << >>
    /\ memory' = NewArray(frames, Null)
    /\ nextVictimIndex' = nextVictimIndexInit
    /\ ageCounter' = NewArray(frames, 0)
    /\ refBits' = NewArray(frames, 0)
    /\ pointer' = pointerInit
    /\ probes' = 0
    /\ UNCHANGED <<references, frames, returned,
                   uiVars>>

\* `return trace`, received by the caller
Return ==
    /\ pc = "loop" /\ ~LoopCond
    /\ returned' = [returned EXCEPT ![alg] = <<trace>>]
    /\ pc' = "idle"
    /\ UNCHANGED <<references, frames, alg, i, memory, nextVictimIndex,
                   ageCounter, refBits, pointer, probes, trace,
                   uiVars>>

Init ==
    /\ \E in \in Inputs : references = in[1] /\ frames = in[2]
    /\ pc = "idle"
    /\ alg = "FIFO"
    /\ i = 0
    /\ trace = << >>
    /\ memory = NewArray(frames, Null)
    /\ nextVictimIndex = 0
    /\ ageCounter = NewArray(frames, 0)
    /\ refBits = NewArray(frames, 0)
    /\ pointer = 0
    /\ probes = 0
    /\ returned = [a \in Algorithms |-> << >>]
    /\ InitUI

Next ==
    \/ \E a \in Algorithms : Call(a)
    \/ FIFOStep
    \/ LRUStep
    \/ OptimalStep
    \/ ClockStep
    \/ ClockReplace
    \/ ClockSecondChance
    \/ ClockEvict
    \/ Return

Spec == Init /\ [][Next]_vars

\* The generators called directly, without the caller's [3, 10] validation:
\* the inputs of Spec and the same reference strings with 0 frames.
InitAnyFrames ==
    /\ \E in \in Inputs \cup {<<b[1], 0>> : b \in BoundedInputs} :
          references = in[1] /\ frames = in[2]
    /\ pc = "idle"
    /\ alg = "FIFO"
    /\ i = 0
    /\ trace = << >>
    /\ memory = NewArray(frames, Null)
    /\ nextVictimIndex = 0
    /\ ageCounter = NewArray(frames, 0)
    /\ refBits = NewArray(frames, 0)
    /\ pointer = 0
    /\ probes = 0
    /\ returned = [a \in Algorithms |-> << >>]
    /\ InitUI

SpecAnyFrames == InitAnyFrames /\ [][Next]_vars

\* ======================= app.js: the controller =======================

\* the generator's local variables
locals == <<i, memory, nextVictimIndex, ageCounter, refBits, pointer, probes,
            trace>>

\* what the user can type: whitespace-separated tokens of the reference
\* field, and the contents of the frame-count field
TokenStrings == {"x", "-1", "1"}

RefStrings ==
    UNION {[1..n -> TokenStrings] : n \in 0..MaxTokens}
        \cup {<<"1", "2", "3", "4", "1", "2", "5">>}

FrameCountFields == {"", "2", "3", "3.7", "11"}

SliderValues == {600, 1100}

\* Number(token)
Number(tok) ==
    CASE tok = "-1" -> -1
      [] tok = "0" -> 0
      [] tok = "1" -> 1
      [] tok = "2" -> 2
      [] tok = "3" -> 3
      [] tok = "4" -> 4
      [] tok = "5" -> 5
      [] OTHER -> NaN

\* parseInt(field): the leading integer of the text, NaN if there is none
parseInt(field) ==
    CASE field = "2" -> 2
      [] field = "3" -> 3
      [] field = "3.7" -> 3
      [] field = "11" -> 11
      [] OTHER -> NaN

\* split(/\s+/).filter(n => n).map(Number).filter(n => !isNaN(n) && n >= 0)
ParseReferences(raw) ==
    SelectSeq([k \in 1..Len(raw) |-> Number(raw[k])],
              LAMBDA n : n /= NaN /\ n >= 0)

\* frameCount < 3 || frameCount > 10: both comparisons are false for NaN
FrameCountRejected(frameCount) ==
    frameCount /= NaN /\ (frameCount < 3 \/ frameCount > 10)

\* clearInterval(handle)
clearInterval(running, handle) == running \ {handle}

\* setInterval: a handle that no running interval has
setInterval(running) ==
    CHOOSE h \in 1..MaxTimers :
        h \notin running /\ \A g \in 1..(h - 1) : g \in running

\* updateControls(isSimulationRunning), for the trace and cursor given
updateControls(isSimulationRunning, tr, step) ==
    LET isAtStart == step <= -1
        isAtEnd == step >= Len(tr) - 1
    IN  /\ stepBackDisabled' = (~isSimulationRunning \/ isAtStart)
        /\ stepFwdDisabled' = (~isSimulationRunning \/ isAtEnd)
        /\ playPauseDisabled' = (~isSimulationRunning \/ isAtEnd)

\* for (let i = 0; i <= currentStep; i++)
TallyUpTo(step) == 0..step

\* hitRatio.toFixed(2), as a number of hundredths
toFixed2(hits, totalActions) ==
    IF totalActions > 0
    THEN (2 * hits * 100 * 100 + totalActions) \div (2 * totalActions)
    ELSE 0

\* updateStats(), for the trace and cursor given
updateStats(tr, step) ==
    LET counted == {k \in TallyUpTo(step) : k < Len(tr)}
        hits == Cardinality({k \in counted : tr[k + 1].action = "HIT"})
        faults == Cardinality({k \in counted :
                      tr[k + 1].action \in {"FAULT", "REPLACEMENT"}})
    IN  /\ statTotalRefs' = (IF Len(tr) > 0 THEN Len(tr) ELSE 0)
        /\ statCurrentStep' = hits + faults
        /\ statHits' = hits
        /\ statFaults' = faults
        /\ statHitRatio' = toFixed2(hits, hits + faults)

\* updateCurrentActionText(): the kind of message shown for the cursor
CurrentActionText(tr, step) ==
    IF step < 0 THEN currentAction
    ELSE CASE tr[step + 1].action = "HIT" -> "PAGE_HIT"
           [] tr[step + 1].action = "FAULT" -> "PAGE_FAULT"
           [] tr[step + 1].action = "REPLACEMENT" -> "PAGE_FAULT_REPLACE"
           [] OTHER -> "REF"

\* runSimulation() up to the call of the generator
runSimulation(raw, field, algorithm) ==
    LET refs == ParseReferences(raw)
        frameCount == parseInt(field)
    IN  /\ pc = "idle"
        /\ timers' = clearInterval(timers, animationInterval)
        /\ isPlaying' = FALSE
        /\ IF Len(refs) = 0
           THEN /\ currentAction' = "ERROR // INVALID REF_STRING"
                /\ UNCHANGED <<references, frames, alg, pc, locals>>
           ELSE IF FrameCountRejected(frameCount)
           THEN /\ currentAction' = "ERROR // FRAME_COUNT [3-10]"
                /\ UNCHANGED <<references, frames, alg, pc, locals>>
           ELSE /\ references' = refs
                /\ frames' = frameCount
                /\ alg' = algorithm
                /\ UNCHANGED currentAction
                /\ IF frameCount = NaN
                   THEN \* new Array(NaN) throws a RangeError
                        /\ pc' = "thrown"
                        /\ UNCHANGED locals
                   ELSE /\ pc' = "loop"
                        /\ i' = 0
                        /\ trace' = << >>
                        /\ memory' = NewArray(frameCount, Null)
                        /\ nextVictimIndex' = nextVictimIndexInit
                        /\ ageCounter' = NewArray(frameCount, 0)
                        /\ refBits' = NewArray(frameCount, 0)
                        /\ pointer' = pointerInit
                        /\ probes' = 0
        /\ UNCHANGED <<returned, simulationTrace, currentStep,
                       animationInterval, animationSpeed, stepBackDisabled,
                       stepFwdDisabled, playPauseDisabled, statHits,
                       statFaults, statCurrentStep, statTotalRefs,
                       statHitRatio>>

\* runSimulation's `references` and `frameCount` and the generator's locals
\* go out of scope
Discard ==
    /\ references' = << >>
    /\ frames' = 0
    /\ i' = 0
    /\ trace' = << >>
    /\ memory' = NewArray(0, Null)
    /\ nextVictimIndex' = 0
    /\ ageCounter' = NewArray(0, 0)
    /\ refBits' = NewArray(0, 0)
    /\ pointer' = 0
    /\ probes' = 0

ReadyCursorStale == currentStep

\* currentStep = -1
ReadyCursor == -1

\* the rest of the try block, once the generator has returned its trace
runSimulationReady ==
    /\ pc = "loop" /\ ~LoopCond
    /\ pc' = "idle"
    /\ simulationTrace' = trace
    /\ currentStep' = ReadyCursor
    /\ updateControls(TRUE, trace, ReadyCursor)
    /\ updateStats(trace, ReadyCursor)
    /\ currentAction' = "SIMULATION_READY"
    /\ Discard
    /\ UNCHANGED <<alg, returned, isPlaying, animationInterval, timers,
                   animationSpeed>>

\* the catch block
runSimulationCatch ==
    /\ pc = "thrown"
    /\ pc' = "idle"
    /\ currentAction' = "ERROR // INVALID ARRAY LENGTH"
    /\ Discard
    /\ UNCHANGED <<alg, returned,
                   simulationTrace, currentStep, isPlaying,
                   animationInterval, timers, animationSpeed,
                   stepBackDisabled, stepFwdDisabled, playPauseDisabled,
                   statHits, statFaults, statCurrentStep, statTotalRefs,
                   statHitRatio>>

\* the cursor after stepSimulation(direction) on a non-empty trace
NewCursor(direction) ==
    LET newStep == currentStep + direction
        len == Len(simulationTrace)
    IN  IF newStep >= 0 /\ newStep < len THEN newStep
        ELSE IF newStep >= len THEN len - 1
        ELSE IF newStep < -1 THEN -1
        ELSE currentStep

\* the body of stepSimulation(direction); fromInterval: it is called by the
\* interval's callback, which pauses when the cursor is then at the end
StepBody(direction, fromInterval) ==
    LET len == Len(simulationTrace)
        cursor == IF len = 0 THEN currentStep ELSE NewCursor(direction)
        paused == \/ len /= 0 /\ currentStep + direction >= len
                  \/ fromInterval /\ cursor >= len - 1
    IN  /\ currentStep' = cursor
        /\ IF paused
           THEN /\ isPlaying' = FALSE
                /\ timers' = clearInterval(timers, animationInterval)
           ELSE UNCHANGED <<isPlaying, timers>>
        /\ IF len = 0
           THEN UNCHANGED <<currentAction, stepBackDisabled, stepFwdDisabled,
                            playPauseDisabled, statHits, statFaults,
                            statCurrentStep, statTotalRefs, statHitRatio>>
           ELSE /\ updateControls(TRUE, simulationTrace, cursor)
                /\ updateStats(simulationTrace, cursor)
                /\ currentAction' = CurrentActionText(simulationTrace, cursor)
        /\ UNCHANGED <<references, frames, pc, alg, locals, returned,
                       simulationTrace, animationInterval, animationSpeed>>

\* a click on FWD (direction 1) or BACK (direction -1), when it is enabled
stepSimulation(direction) ==
    /\ pc = "idle"
    /\ IF direction = 1 THEN ~stepFwdDisabled ELSE ~stepBackDisabled
    /\ StepBody(direction, FALSE)

\* the callback of a running interval
intervalCallback ==
    /\ pc = "idle"
    /\ timers /= {}
    /\ StepBody(1, TRUE)

\* playSimulation(), with the intervals in `running` still running
playSimulation(running) ==
    /\ Cardinality(running) < MaxTimers
    /\ currentStep' = (IF currentStep >= Len(simulationTrace) - 1
                       THEN -1 ELSE currentStep)
    /\ isPlaying' = TRUE
    /\ animationInterval' = setInterval(running)
    /\ timers' = running \cup {setInterval(running)}

\* pauseSimulation(), as the whole effect of a handler
pauseSimulation ==
    /\ isPlaying' = FALSE
    /\ timers' = clearInterval(timers, animationInterval)
    /\ UNCHANGED <<currentStep, animationInterval>>

\* a click on PLAY/PAUSE, when it is enabled
playPause ==
    /\ pc = "idle"
    /\ ~playPauseDisabled
    /\ IF isPlaying THEN pauseSimulation ELSE playSimulation(timers)
    /\ UNCHANGED <<references, frames, pc, alg, locals, returned,
                   simulationTrace, animationSpeed, currentAction,
                   stepBackDisabled, stepFwdDisabled, playPauseDisabled,
                   statHits, statFaults, statCurrentStep, statTotalRefs,
                   statHitRatio>>

\* updateSpeed(value)
updateSpeed(value) ==
    /\ pc = "idle"
    /\ animationSpeed' = 2000 - value + 100
    /\ IF isPlaying
       THEN playSimulation(clearInterval(timers, animationInterval))
       ELSE UNCHANGED <<currentStep, isPlaying, animationInterval, timers>>
    /\ UNCHANGED <<references, frames, pc, alg, locals, returned,
                   simulationTrace, currentAction, stepBackDisabled,
                   stepFwdDisabled, playPauseDisabled, statHits, statFaults,
                   statCurrentStep, statTotalRefs, statHitRatio>>

\* the page once loaded: no generator has been called yet
InitApp ==
    /\ references = << >>
    /\ frames = 0
    /\ pc = "idle"
    /\ alg = "FIFO"
    /\ i = 0
    /\ trace = << >>
    /\ memory = NewArray(0, Null)
    /\ nextVictimIndex = 0
    /\ ageCounter = NewArray(0, 0)
    /\ refBits = NewArray(0, 0)
    /\ pointer = 0
    /\ probes = 0
    /\ returned = [a \in Algorithms |-> << >>]
    /\ InitUI

NextUI ==
    \/ \E raw \in RefStrings, field \in FrameCountFields,
          algorithm \in Algorithms : runSimulation(raw, field, algorithm)
    \/ FIFOStep
    \/ LRUStep
    \/ OptimalStep
    \/ ClockStep
    \/ ClockReplace
    \/ ClockSecondChance
    \/ ClockEvict
    \/ runSimulationReady
    \/ runSimulationCatch
    \/ \E direction \in {1, -1} : stepSimulation(direction)
    \/ playPause
    \/ \E value \in SliderValues : updateSpeed(value)
    \/ intervalCallback

SpecUI == InitApp /\ [][NextUI]_vars

\* ======================= properties =======================

Range(f) == {f[j] : j \in DOMAIN f}

\* number of occupied slots of a frameState snapshot
Occupied(fs) == Cardinality({j \in DOMAIN fs : fs[j] /= Null})

\* the Memory State before step k of a trace (k = 1 is the first step)
Before(tr, k) == IF k = 1 THEN NewArray(frames, Null) ELSE tr[k - 1].frameState

\* number of non-HIT steps (FAULT + REPLACEMENT) of a trace
Faults(tr) == Cardinality({k \in 1..Len(tr) : tr[k].action /= "HIT"})

HasAction(tr, act) == \E k \in 1..Len(tr) : tr[k].action = act

\* the generator has run its loop to the end and is about to return trace
AtReturn == pc = "loop" /\ ~LoopCond

\* C1: every returned trace has exactly one record per input reference, in
\* order: its length is references.length and record i has refIndex = i and
\* reference = references[i] (an empty input gives an empty trace).
C1_TraceLength ==
    \A a \in Algorithms :
        returned[a] /= << >> =>
            LET tr == returned[a][1]
            IN  /\ Len(tr) = Len(references)
                /\ \A k \in 1..Len(tr) :
                      tr[k].refIndex = k - 1 /\ tr[k].reference = references[k]

C1_Witness ==
    /\ \A a \in Algorithms : returned[a] /= << >> /\ Len(returned[a][1]) >= 3
    /\ frames >= 2

\* C2: no frameState snapshot of any step record holds a page identifier in
\* more than one slot (empty slots excepted).
C2_NoDuplicates ==
    \A k \in 1..Len(trace) :
        LET fs == trace[k].frameState
        IN  \A x, y \in DOMAIN fs : (x /= y /\ fs[x] /= Null) => fs[x] /= fs[y]

C2_Witness ==
    /\ frames >= 2
    /\ \E k \in 2..Len(trace) :
          /\ trace[k].action = "HIT"
          /\ trace[k - 1].action = "REPLACEMENT"
          /\ Occupied(trace[k].frameState) = frames

\* C3: the number of occupied slots of consecutive snapshots never
\* decreases: +1 on FAULT, unchanged on HIT and REPLACEMENT, never above
\* frames, and once equal to frames it stays equal in all later steps.
C3_MonotonicFill ==
    /\ \A k \in 1..Len(trace) :
          LET b == Occupied(Before(trace, k))
              a == Occupied(trace[k].frameState)
          IN  /\ a >= b
              /\ a <= frames
              /\ trace[k].action = "FAULT" => a = b + 1
              /\ trace[k].action \in {"HIT", "REPLACEMENT"} => a = b
    /\ \A k, l \in 1..Len(trace) :
          (k < l /\ Occupied(trace[k].frameState) = frames)
              => Occupied(trace[l].frameState) = frames

C3_Witness ==
    /\ frames >= 2
    /\ HasAction(trace, "FAULT") /\ HasAction(trace, "HIT")
    /\ \E k \in 1..Len(trace) :
          /\ trace[k].action = "REPLACEMENT"
          /\ k < Len(trace)
          /\ Occupied(trace[Len(trace)].frameState) = frames

\* C4: the action of a step is HIT exactly when the reference is in the
\* Memory State before the step, FAULT exactly when it is absent and a slot
\* is empty, REPLACEMENT exactly when it is absent and no slot is empty.
C4_ActionClassification ==
    [][Len(trace') = Len(trace) + 1 =>
          LET rec == trace'[Len(trace')]
              resident == references[i + 1] \in Range(memory)
              hasEmpty == Null \in Range(memory)
          IN  /\ rec.action = "HIT" <=> resident
              /\ rec.action = "FAULT" <=> (~resident /\ hasEmpty)
              /\ rec.action = "REPLACEMENT" <=> (~resident /\ ~hasEmpty)]_vars

C4_Witness ==
    /\ HasAction(trace, "HIT")
    /\ HasAction(trace, "FAULT")
    /\ HasAction(trace, "REPLACEMENT")

\* C5: on the identical input (the fixture [7,0,1,2,0,3,0,4,2,3,0,3,2] with
\* 4 frames included) the trace of generateTraceOptimal has no more non-HIT
\* steps than the trace of generateTraceLRU.
C5_OptimalNotWorseThanLRU ==
    (returned["Optimal"] /= << >> /\ returned["LRU"] /= << >>) =>
        Faults(returned["Optimal"][1]) <= Faults(returned["LRU"][1])

C5_Witness ==
    /\ references = DivergenceScenario /\ frames = 4
    /\ returned["Optimal"] /= << >> /\ returned["LRU"] /= << >>
    /\ HasAction(returned["Optimal"][1], "REPLACEMENT")
    /\ HasAction(returned["LRU"][1], "REPLACEMENT")

Minimum(S) == CHOOSE m \in S : \A x \in S : m <= x

\* the least number of non-HIT steps any sequence of victim choices reaches on
\* references[k..] from Memory State mem, under the common procedure (hit /
\* fill the lowest empty slot / replace one victim slot)
RECURSIVE MinFaults(_, _)
MinFaults(mem, k) ==
    IF k >= Len(references) THEN 0
    ELSE LET ref == references[k + 1]
         IN  IF ref \in Range(mem) THEN MinFaults(mem, k + 1)
             ELSE IF Null \in Range(mem)
             THEN 1 + MinFaults([mem EXCEPT ![indexOf(mem, Null)] = ref], k + 1)
             ELSE 1 + Minimum({MinFaults([mem EXCEPT ![v] = ref], k + 1) :
                                  v \in DOMAIN mem})

\* C6: no sequence of victim choices under the same procedure has fewer
\* non-HIT steps than generateTraceOptimal has on the same input.
C6_OptimalIsMinimum ==
    (AtReturn /\ alg = "Optimal") =>
        Faults(trace) <= MinFaults(NewArray(frames, Null), 0)

C6_Witness ==
    /\ AtReturn /\ alg = "Optimal"
    /\ frames >= 2
    /\ Cardinality({k \in 1..Len(trace) : trace[k].action = "REPLACEMENT"}) >= 2
    /\ returned["FIFO"] /= << >>
    /\ Faults(trace) < Faults(returned["FIFO"][1])

\* C7: generateTraceFIFO([1,2,3,4,1,2,5], 3) has the actions FAULT, FAULT,
\* FAULT, REPLACEMENT, REPLACEMENT, REPLACEMENT, REPLACEMENT: 7 faults, 0 hits.
C7_FIFOScenario ==
    (references = FIFOScenario /\ frames = 3 /\ returned["FIFO"] /= << >>) =>
        LET tr == returned["FIFO"][1]
        IN  /\ [k \in 1..Len(tr) |-> tr[k].action] =
                  <<"FAULT", "FAULT", "FAULT", "REPLACEMENT", "REPLACEMENT",
                    "REPLACEMENT", "REPLACEMENT">>
            /\ Faults(tr) = 7
            /\ ~HasAction(tr, "HIT")

C7_Witness ==
    references = FIFOScenario /\ frames = 3 /\ returned["FIFO"] /= << >>

\* C8: the hand scan of every Clock REPLACEMENT ends, having tested at most
\* 2 x frames slots: the count of slots tested never passes 2 x frames, in
\* the scan or after it.
C8_ClockProbeBound == probes <= 2 * frames

C8_Witness ==
    /\ alg = "Clock" /\ pc = "loop" /\ frames >= 2
    /\ probes = frames + 1
    /\ Len(trace) >= 1 /\ trace[Len(trace)].action = "REPLACEMENT"

\* C9: a generator called again on the same (references, frames), whatever
\* was called in between, returns the trace it returned before.
C9_Deterministic ==
    (AtReturn /\ returned[alg] /= << >>) => trace = returned[alg][1]

C9_Witness ==
    /\ AtReturn /\ returned[alg] /= << >>
    /\ HasAction(trace, "REPLACEMENT") /\ HasAction(trace, "HIT")
    /\ \E a \in Algorithms \ {alg} : returned[a] /= << >>

\* C10 as stated: replacedPage and replacedFrameIndex are null unless the
\* action is REPLACEMENT.
C10_Original ==
    \A k \in 1..Len(trace) :
        trace[k].action /= "REPLACEMENT" =>
            trace[k].replacedPage = Null /\ trace[k].replacedFrameIndex = Null

\* C10 amended: replacedPage is null unless the action is REPLACEMENT;
\* replacedFrameIndex is null on HIT, and on FAULT it is the index of the
\* slot the page was loaded into.
C10_EvictionInfo ==
    \A k \in 1..Len(trace) :
        LET rec == trace[k]
        IN  /\ rec.action /= "REPLACEMENT" => rec.replacedPage = Null
            /\ rec.action = "HIT" => rec.replacedFrameIndex = Null
            /\ rec.action = "FAULT" =>
                  /\ rec.replacedFrameIndex \in DOMAIN rec.frameState
                  /\ rec.frameState[rec.replacedFrameIndex] = rec.reference
                  /\ Before(trace, k)[rec.replacedFrameIndex] = Null

C10_Witness ==
    /\ HasAction(trace, "HIT")
    /\ HasAction(trace, "FAULT")
    /\ \E k \in 1..Len(trace) :
          trace[k].action = "REPLACEMENT" /\ trace[k].replacedPage /= Null

\* C12 as stated: a generator called with frames = 0 and a non-empty
\* reference string signals an error to the caller and returns no trace.
C12_ZeroFramesSignalled ==
    (frames = 0 /\ Len(references) > 0) =>
        \A a \in Algorithms : returned[a] = << >>

Maximum(S) == CHOOSE m \in S : \A x \in S : x <= m

\* the step (1-based) that loaded a page resident before step k: the latest
\* FAULT or REPLACEMENT before k whose reference is the page
LoadStep(tr, k, page) ==
    Maximum({j \in 1..(k - 1) : tr[j].reference = page /\ tr[j].action /= "HIT"})

\* the latest step up to k (1-based, k included) whose reference is the page
LastUse(tr, k, page) == Maximum({j \in 1..k : tr[j].reference = page})

\* C13: on every FIFO REPLACEMENT the evicted page is the resident page that
\* was loaded earliest, whatever HITs came in between.
C13_FIFOEvictsOldest ==
    alg = "FIFO" =>
        \A k \in 1..Len(trace) :
            trace[k].action = "REPLACEMENT" =>
                /\ trace[k].replacedPage \in Range(Before(trace, k))
                /\ \A q \in Range(Before(trace, k)) :
                      LoadStep(trace, k, trace[k].replacedPage) <= LoadStep(trace, k, q)

C13_Witness ==
    /\ alg = "FIFO" /\ frames >= 2
    /\ \E k \in 1..Len(trace) :
          /\ trace[k].action = "REPLACEMENT"
          /\ \E j \in 1..(k - 1) :
                /\ trace[j].action = "HIT"
                /\ trace[j].reference = trace[k].replacedPage
                /\ LoadStep(trace, k, trace[k].replacedPage) < j

\* C14: on every LRU REPLACEMENT the victim is the lowest-index slot of
\* maximum age, and the evicted page is the resident page whose most recent
\* reference (load or HIT) is the earliest.
C14_LRUEvictsLeastRecent ==
    alg = "LRU" =>
        \A k \in 2..Len(trace) :
            trace[k].action = "REPLACEMENT" =>
                LET ages == trace[k - 1].lruAges
                    mem == Before(trace, k)
                    v == trace[k].replacedFrameIndex
                IN  /\ v \in DOMAIN mem
                    /\ \A j \in DOMAIN ages : ages[j] <= ages[v]
                    /\ \A j \in DOMAIN ages : j < v => ages[j] < ages[v]
                    /\ trace[k].replacedPage = mem[v]
                    /\ \A q \in Range(mem) :
                          LastUse(trace, k - 1, mem[v]) <= LastUse(trace, k - 1, q)

C14_Witness ==
    /\ alg = "LRU" /\ frames >= 2
    /\ \E k \in 2..Len(trace) :
          /\ trace[k].action = "REPLACEMENT"
          /\ trace[k].replacedFrameIndex /= 0
          /\ \E j \in 1..(k - 1) : trace[j].action = "HIT"

\* the steps after step k (1-based) that reference the page
LaterUses(page, k) == {l \in (k + 1)..Len(references) : references[l] = page}

\* C15: on every Optimal REPLACEMENT the victim is the lowest-index slot
\* whose page does not occur again, if there is one; otherwise the slot whose
\* page's next occurrence is the latest.  So no resident page is next used
\* later than the evicted one.
C15_OptimalVictim ==
    alg = "Optimal" =>
        \A k \in 1..Len(trace) :
            trace[k].action = "REPLACEMENT" =>
                LET mem == Before(trace, k)
                    v == trace[k].replacedFrameIndex
                    never == {j \in DOMAIN mem : LaterUses(mem[j], k) = {}}
                    next(j) == Minimum(LaterUses(mem[j], k))
                IN  /\ v \in DOMAIN mem
                    /\ trace[k].replacedPage = mem[v]
                    /\ IF never /= {}
                       THEN v \in never /\ \A j \in never : v <= j
                       ELSE \A j \in DOMAIN mem : j /= v => next(j) < next(v)
                    /\ \A j \in DOMAIN mem :
                          v \in never \/ (j \notin never /\ next(j) <= next(v))

C15_Witness ==
    /\ alg = "Optimal" /\ frames >= 2
    /\ \E k \in 1..Len(trace) :
          /\ trace[k].action = "REPLACEMENT"
          /\ trace[k].replacedFrameIndex /= 0
          /\ \A j \in DOMAIN Before(trace, k) :
                LaterUses(Before(trace, k)[j], k) /= {}
    /\ \E k \in 1..Len(trace) :
          /\ trace[k].action = "REPLACEMENT"
          /\ LaterUses(trace[k].replacedPage, k) = {}

\* C16: on a Clock REPLACEMENT with hand h and bits b before the step, the
\* victim is the first slot at or after h in circular order whose bit is 0
\* (h itself when every bit is 1); the slots passed over have bit 0 after
\* the step, the slots not probed keep their bit, the victim holds the new
\* page with bit 1, and the recorded hand is (victim + 1) mod frames.
C16_ClockReplacement ==
    alg = "Clock" =>
        \A k \in 2..Len(trace) :
            trace[k].action = "REPLACEMENT" =>
                LET h == trace[k - 1].pointer
                    b == trace[k - 1].refBits
                    mem == Before(trace, k)
                    rec == trace[k]
                    zeros == {d \in 0..(frames - 1) : b[(h + d) % frames] = 0}
                    dist == IF zeros = {} THEN frames ELSE Minimum(zeros)
                    victim == (h + dist) % frames
                    passed == {(h + d) % frames : d \in 0..(dist - 1)} \ {victim}
                IN  /\ rec.replacedFrameIndex = victim
                    /\ rec.replacedPage = mem[victim]
                    /\ rec.frameState = [mem EXCEPT ![victim] = rec.reference]
                    /\ rec.refBits =
                          [j \in DOMAIN b |->
                              IF j = victim THEN 1
                              ELSE IF j \in passed THEN 0 ELSE b[j]]
                    /\ rec.pointer = (victim + 1) % frames

C16_Witness ==
    /\ alg = "Clock" /\ frames >= 3
    /\ \E k \in 2..Len(trace) :
          /\ trace[k].action = "REPLACEMENT"
          /\ trace[k].replacedFrameIndex /= trace[k - 1].pointer
          /\ \E j \in DOMAIN trace[k].refBits :
                j /= trace[k].replacedFrameIndex /\ trace[k].refBits[j] = 1
    /\ \E k \in 2..Len(trace) :
          /\ trace[k].action = "REPLACEMENT"
          /\ \A j \in DOMAIN trace[k - 1].refBits : trace[k - 1].refBits[j] = 1

\* C19: the pointer of a FIFO record is the pointer after the step: the
\* previous record's pointer (0 before the first step) on HIT and FAULT, that
\* pointer plus one modulo frames on REPLACEMENT, where replacedFrameIndex is
\* the previous pointer.
C19_FIFOPointer ==
    alg = "FIFO" =>
        \A k \in 1..Len(trace) :
            LET prev == IF k = 1 THEN 0 ELSE trace[k - 1].pointer
                rec == trace[k]
            IN  /\ rec.action \in {"HIT", "FAULT"} => rec.pointer = prev
                /\ rec.action = "REPLACEMENT" =>
                      /\ rec.pointer = (prev + 1) % frames
                      /\ rec.replacedFrameIndex = prev

C19_Witness ==
    /\ alg = "FIFO" /\ frames >= 2
    /\ \E k \in 2..Len(trace) :
          /\ trace[k].action = "REPLACEMENT" /\ trace[k].pointer = 0
          /\ trace[k - 1].pointer = frames - 1
    /\ \E k \in 2..Len(trace) :
          trace[k].action = "HIT" /\ trace[k].pointer /= 0

\* C20: the lruAges of an LRU record are the ages after the step: 0 for the
\* slot holding the current reference, the previous age plus one for every
\* other occupied slot, 0 for an empty slot; so the age of an occupied slot
\* is the number of references processed since its page was last referenced.
C20_LRUAges ==
    alg = "LRU" =>
        \A k \in 1..Len(trace) :
            LET prev == IF k = 1 THEN NewArray(frames, 0) ELSE trace[k - 1].lruAges
                rec == trace[k]
                fs == rec.frameState
            IN  \A j \in DOMAIN fs :
                    /\ fs[j] = rec.reference => rec.lruAges[j] = 0
                    /\ (fs[j] /= Null /\ fs[j] /= rec.reference) =>
                          rec.lruAges[j] = prev[j] + 1
                    /\ fs[j] = Null => rec.lruAges[j] = 0
                    /\ fs[j] /= Null => rec.lruAges[j] = k - LastUse(trace, k, fs[j])

C20_Witness ==
    /\ alg = "LRU" /\ frames >= 3
    /\ \E k \in 2..Len(trace) :
          /\ trace[k].action = "HIT"
          /\ \E j \in DOMAIN trace[k].lruAges : trace[k].lruAges[j] >= 2
          /\ \E j \in DOMAIN trace[k].frameState : trace[k].frameState[j] = Null
    /\ HasAction(trace, "REPLACEMENT")

\* ---- the statistics panel ----

\* the numbers of HIT and of FAULT or REPLACEMENT records in steps 0..c
PrefixHits(tr, c) ==
    Cardinality({k \in 1..(c + 1) : tr[k].action = "HIT"})

PrefixFaults(tr, c) ==
    Cardinality({k \in 1..(c + 1) :
        tr[k].action \in {"FAULT", "REPLACEMENT"}})

\* shown (in hundredths of a percent) is num / den * 100, to the two decimals
\* of the display
ShowsRatio(shown, num, den) ==
    IF den = 0 THEN shown = 0
    ELSE /\ 2 * (shown * den - num * 10000) <= den
         /\ 2 * (num * 10000 - shown * den) <= den

\* C11: with a trace loaded, at every cursor position c the panel shows the
\* prefix tallies of steps 0..c: hits, faults, hits + faults = c + 1, and the
\* hit ratio hits / (hits + faults) * 100 (to the two decimals the panel
\* shows; 0 at c = -1).
C11_PrefixStats ==
    (pc = "idle" /\ Len(simulationTrace) > 0) =>
        /\ currentStep \in -1..(Len(simulationTrace) - 1)
        /\ statHits = PrefixHits(simulationTrace, currentStep)
        /\ statFaults = PrefixFaults(simulationTrace, currentStep)
        /\ statHits + statFaults = currentStep + 1
        /\ statCurrentStep = currentStep + 1
        /\ ShowsRatio(statHitRatio, statHits, statHits + statFaults)

\* ---- stepping the cursor ----

\* C17: with a trace loaded, stepSimulation(-1) takes the cursor from any
\* position after the start (currentStep > -1, where BACK is enabled) to
\* currentStep - 1, and stepSimulation(1) takes it from any position before
\* the end to currentStep + 1.
C17_StepBothWays ==
    (pc = "idle" /\ Len(simulationTrace) > 0) =>
        /\ currentStep > -1 => NewCursor(-1) = currentStep - 1
        /\ currentStep < Len(simulationTrace) - 1 =>
               NewCursor(1) = currentStep + 1

\* ---- input validation ----

\* C18: a generator is only ever invoked (running, or having thrown) with a
\* non-empty reference list and a frame count that is an integer in 3..10.
C18_ValidatedCall ==
    pc \in {"loop", "scan", "thrown"} =>
        /\ Len(references) > 0
        /\ frames \in 3..10

\* ---- Clock: steps that do not move the hand ----

\* C21: in a Clock trace, a HIT or a FAULT record has the hand of the previous
\* record (0 before the first step) and the previous record's bits (all 0
\* before the first step), except that the bit of the slot holding the
\* reference is 1.
C21_ClockHitFault ==
    alg = "Clock" =>
        \A k \in 1..Len(trace) :
            trace[k].action \in {"HIT", "FAULT"} =>
                LET rec == trace[k]
                    prevBits == IF k = 1 THEN NewArray(frames, 0)
                                ELSE trace[k - 1].refBits
                    prevHand == IF k = 1 THEN 0 ELSE trace[k - 1].pointer
                    slot == CHOOSE j \in DOMAIN rec.frameState :
                                rec.frameState[j] = rec.reference
                IN  /\ rec.pointer = prevHand
                    /\ rec.refBits[slot] = 1
                    /\ \A j \in DOMAIN prevBits \ {slot} :
                          rec.refBits[j] = prevBits[j]
                    /\ DOMAIN rec.refBits = DOMAIN prevBits

C21_Witness ==
    /\ alg = "Clock"
    /\ \E k \in 2..Len(trace) :
          /\ trace[k].action = "HIT"
          /\ trace[k - 1].pointer /= 0
          /\ \E j \in DOMAIN trace[k].frameState :
                /\ trace[k].frameState[j] = trace[k].reference
                /\ trace[k - 1].refBits[j] = 0
    /\ \E k \in 2..Len(trace) : trace[k].action = "FAULT"

\* ---- consecutive snapshots ----

\* the slots in which two snapshots differ
Changed(mem, fs) == {j \in DOMAIN fs : fs[j] /= mem[j]}

\* C22: in every trace, a HIT record's frameState equals the previous one (all
\* slots empty before the first step); a FAULT record's differs from it in
\* exactly the lowest-index empty slot, which is replacedFrameIndex and now
\* holds the reference, with replacedPage null; a REPLACEMENT record's differs
\* from it in exactly replacedFrameIndex, which held replacedPage and now holds
\* the reference.
C22_SnapshotEffect ==
    \A k \in 1..Len(trace) :
        LET rec == trace[k]
            mem == Before(trace, k)
            fs == rec.frameState
            empty == {j \in DOMAIN mem : mem[j] = Null}
        IN  /\ DOMAIN fs = DOMAIN mem
            /\ rec.action = "HIT" => fs = mem
            /\ rec.action = "FAULT" =>
                  /\ empty /= {}
                  /\ rec.replacedFrameIndex = Minimum(empty)
                  /\ Changed(mem, fs) = {rec.replacedFrameIndex}
                  /\ fs[rec.replacedFrameIndex] = rec.reference
                  /\ rec.replacedPage = Null
            /\ rec.action = "REPLACEMENT" =>
                  /\ rec.replacedFrameIndex \in DOMAIN mem
                  /\ Changed(mem, fs) = {rec.replacedFrameIndex}
                  /\ mem[rec.replacedFrameIndex] = rec.replacedPage
                  /\ fs[rec.replacedFrameIndex] = rec.reference

C22_Witness ==
    /\ alg = "Optimal" /\ frames >= 2
    /\ HasAction(trace, "HIT")
    /\ \E k \in 2..Len(trace) : trace[k].action = "FAULT"
    /\ \E k \in 1..Len(trace) :
          /\ trace[k].action = "REPLACEMENT"
          /\ trace[k].replacedFrameIndex /= 0

\* C23: in every trace, the frameState of record k holds the page referenced
\* at step k, references[k], in exactly one slot.
C23_ReferencedResident ==
    \A k \in 1..Len(trace) :
        /\ trace[k].reference = references[k]
        /\ Cardinality({j \in DOMAIN trace[k].frameState :
               trace[k].frameState[j] = references[k]}) = 1

C23_Witness ==
    /\ alg = "LRU" /\ frames >= 2
    /\ AtReturn
    /\ HasAction(trace, "HIT")
    /\ HasAction(trace, "FAULT")
    /\ HasAction(trace, "REPLACEMENT")
    /\ trace[Len(trace)].action = "HIT"

\* ---- LRU: no ties ----

\* the ages of the occupied slots of mem are pairwise distinct
DistinctAges(mem, ages) ==
    \A j1, j2 \in DOMAIN mem :
        (j1 /= j2 /\ mem[j1] /= Null /\ mem[j2] /= Null) => ages[j1] /= ages[j2]

\* C24: in generateTraceLRU the ages of the occupied slots are pairwise
\* distinct, in the live counters and in every record; so before every
\* REPLACEMENT exactly one slot holds the maximum age, and it is the victim.
C24_LRUNoTies ==
    alg = "LRU" =>
        /\ pc = "loop" => DistinctAges(memory, ageCounter)
        /\ \A k \in 1..Len(trace) :
              DistinctAges(trace[k].frameState, trace[k].lruAges)
        /\ \A k \in 2..Len(trace) :
              trace[k].action = "REPLACEMENT" =>
                  LET prev == trace[k - 1].lruAges
                      oldest == {j \in DOMAIN prev :
                                    prev[j] = Maximum(Range(prev))}
                  IN  oldest = {trace[k].replacedFrameIndex}

C24_Witness ==
    /\ alg = "LRU" /\ frames >= 3
    /\ \E k \in 2..Len(trace) :
          /\ trace[k].action = "REPLACEMENT"
          /\ trace[k].replacedFrameIndex /= 0
          /\ \E j \in DOMAIN trace[k - 1].lruAges : trace[k - 1].lruAges[j] >= 3

\* ---- the replay cursor ----

\* C25: the cursor is always within -1..simulationTrace.length - 1, so
\* simulationTrace[currentStep] is a record of the trace whenever
\* currentStep >= 0.
C25_CursorInRange ==
    /\ -1 <= currentStep
    /\ currentStep <= Len(simulationTrace) - 1
    /\ currentStep >= 0 => (currentStep + 1) \in DOMAIN simulationTrace

\* an interval has been started and stopped, and the cursor is on the last step
\* of a trace of several steps
C25_Witness ==
    /\ pc = "idle"
    /\ Len(simulationTrace) >= 2
    /\ currentStep = Len(simulationTrace) - 1
    /\ animationInterval /= Null
    /\ ~isPlaying

\* ---- the animation timer ----

\* at most one interval is running, and one is running exactly when isPlaying
\* is true
TimerMatchesPlaying ==
    /\ Cardinality(timers) <= 1
    /\ isPlaying <=> timers /= {}

\* with the cursor on the last step, or while a new simulation is being run,
\* no interval is running and isPlaying is false
StoppedAtEnd ==
    (pc /= "idle" \/ (Len(simulationTrace) > 0
                      /\ currentStep = Len(simulationTrace) - 1)) =>
        (~isPlaying /\ timers = {})

\* C26: under every interleaving of the handlers and the ticks, at most one
\* interval is running and one is running exactly when isPlaying is true; and
\* once the cursor is on the last step, or a new simulation is run, the
\* interval is cleared and isPlaying is false.
C26_SingleTimer == TimerMatchesPlaying /\ StoppedAtEnd

====
